---- MODULE Spec2Model ----
(***************************************************************************)
(* Model of camtrap_banner_decoder.py: the banner field parser             *)
(* (extract_date_time), the frame samplers for videos and stills, and the  *)
(* batch loop of main() that plans and performs the renames.               *)
(*                                                                         *)
(* Strings are sequences of one-character strings, so that the regular     *)
(* expression searches, str.replace, str.split and the pathlib operations  *)
(* are computed character by character, as the code computes them.         *)
(***************************************************************************)
EXTENDS Integers, Sequences, FiniteSets, TLC

(* ----------------------------- bounds --------------------------------- *)
\* number of pieces a generated banner text is made of (ParseSpec)
MaxPieces == 4
\* number of media files in the input directory (Spec)
MaxFiles == 2
\* number of successive runs of main() over the same directory (Spec)
MaxRuns == 2

(* ------------------------ characters and strings ---------------------- *)
Digits == {"0", "1", "2", "3", "4", "5", "6", "7", "8", "9"}

\* Python's None; it differs from every string, a string's elements being
\* single characters
None == <<"None">>

\* a variable that holds no result of extract_date_time
NoData == [nodata |-> TRUE]

\* code points of the characters the model uses, for the path ordering
Ord(c) ==
  CASE c = "\n" -> 10 [] c = " " -> 32 [] c = "-" -> 45 [] c = "." -> 46
    [] c = "/" -> 47 [] c = "0" -> 48 [] c = "1" -> 49 [] c = "2" -> 50
    [] c = "3" -> 51 [] c = "4" -> 52 [] c = "5" -> 53 [] c = "6" -> 54
    [] c = "7" -> 55 [] c = "8" -> 56 [] c = "9" -> 57 [] c = ":" -> 58
    [] c = "@" -> 64 [] c = "A" -> 65 [] c = "B" -> 66 [] c = "C" -> 67
    [] c = "E" -> 69 [] c = "F" -> 70 [] c = "G" -> 71 [] c = "J" -> 74
    [] c = "K" -> 75 [] c = "P" -> 80 [] c = "T" -> 84 [] c = "_" -> 95
    [] c = "a" -> 97 [] c = "b" -> 98 [] c = "c" -> 99 [] c = "d" -> 100
    [] c = "e" -> 101 [] c = "f" -> 102 [] c = "g" -> 103 [] c = "i" -> 105 [] c = "j" -> 106
    [] c = "m" -> 109 [] c = "p" -> 112 [] c = "v" -> 118
    [] OTHER -> 127

\* str.lower() on one character
LowerChar(c) ==
  CASE c = "A" -> "a" [] c = "B" -> "b" [] c = "C" -> "c" [] c = "E" -> "e"
    [] c = "F" -> "f" [] c = "G" -> "g" [] c = "J" -> "j" [] c = "K" -> "k"
    [] c = "P" -> "p" [] c = "T" -> "t"
    [] OTHER -> c

Lower(s) == [k \in 1..Len(s) |-> LowerChar(s[k])]

MinOf(S) == CHOOSE x \in S : \A y \in S : x <= y
MaxOf(S) == CHOOSE x \in S : \A y \in S : x >= y

\* sub in s
Contains(s, sub) ==
  \E k \in 1..(Len(s) - Len(sub) + 1) : SubSeq(s, k, k + Len(sub) - 1) = sub

\* s.count(c) for a one-character c
Count(s, c) == Cardinality({k \in 1..Len(s) : s[k] = c})

\* s.replace(old, new) for a non-empty old: every non-overlapping occurrence,
\* scanning from the left
RECURSIVE Replace(_, _, _)
Replace(s, old, new) ==
  IF Len(old) = 0 \/ Len(s) < Len(old) THEN s
  ELSE IF SubSeq(s, 1, Len(old)) = old
       THEN new \o Replace(SubSeq(s, Len(old) + 1, Len(s)), old, new)
       ELSE <<s[1]>> \o Replace(Tail(s), old, new)

\* s.split(sep) for a one-character sep: empty fields are kept, and the
\* empty string gives one empty field
RECURSIVE Split(_, _)
Split(s, sep) ==
  LET I == {k \in 1..Len(s) : s[k] = sep}
  IN IF I = {} THEN <<s>>
     ELSE <<SubSeq(s, 1, MinOf(I) - 1)>>
            \o Split(SubSeq(s, MinOf(I) + 1, Len(s)), sep)

\* s.strip()
Strip(s) ==
  LET I == {k \in 1..Len(s) : s[k] \notin {" ", "\n"}}
  IN IF I = {} THEN <<>> ELSE SubSeq(s, MinOf(I), MaxOf(I))

\* sorted(toks, key=len, reverse=True): a stable sort, equal keys keep
\* their original order also under reverse=True
RECURSIVE InsertByLen(_, _)
InsertByLen(sorted, t) ==
  IF sorted = <<>> THEN <<t>>
  ELSE IF Len(Head(sorted)) >= Len(t)
       THEN <<Head(sorted)>> \o InsertByLen(Tail(sorted), t)
       ELSE <<t>> \o sorted

RECURSIVE SortedByLenDesc(_)
SortedByLenDesc(toks) ==
  IF toks = <<>> THEN <<>>
  ELSE InsertByLen(SortedByLenDesc(SubSeq(toks, 1, Len(toks) - 1)),
                   toks[Len(toks)])

(* ----------------------- the regular expressions ---------------------- *)
\* \d{2}-\d{2}-\d{4} matches at position k
DateAt(s, k) ==
  /\ k + 9 <= Len(s)
  /\ \A j \in {0, 1, 3, 4, 6, 7, 8, 9} : s[k + j] \in Digits
  /\ \A j \in {2, 5} : s[k + j] = "-"

\* \d{2}:\d{2}:\d{2} matches at position k
TimeAt(s, k) ==
  /\ k + 7 <= Len(s)
  /\ \A j \in {0, 1, 3, 4, 6, 7} : s[k + j] \in Digits
  /\ \A j \in {2, 5} : s[k + j] = ":"

\* length of the run of digits that starts at position k
DigitRun(s, k) ==
  LET E == {j \in k..(Len(s) + 1) : j = Len(s) + 1 \/ s[j] \notin Digits}
  IN MinOf(E) - k

\* " \d+L " matches at position k, L being the unit letter
TempAt(s, k, L) ==
  LET n == DigitRun(s, k + 1)
  IN /\ k + 3 <= Len(s)
     /\ s[k] = " "
     /\ n >= 1
     /\ k + n + 2 <= Len(s)
     /\ s[k + n + 1] = L
     /\ s[k + n + 2] = " "

\* re.search(...).group(0): the leftmost match, None without a match
DateSearch(s) ==
  LET I == {k \in 1..Len(s) : DateAt(s, k)}
  IN IF I = {} THEN None ELSE SubSeq(s, MinOf(I), MinOf(I) + 9)

TimeSearch(s) ==
  LET I == {k \in 1..Len(s) : TimeAt(s, k)}
  IN IF I = {} THEN None ELSE SubSeq(s, MinOf(I), MinOf(I) + 7)

TempSearch(s, L) ==
  LET I == {k \in 1..Len(s) : TempAt(s, k, L)}
  IN IF I = {} THEN None
     ELSE SubSeq(s, MinOf(I), MinOf(I) + DigitRun(s, MinOf(I) + 1) + 2)

(* --------------------- extract_date_time: the parser ------------------ *)
\* Python truthiness of an optional string
Truthy(x) == x # None /\ x # <<>>

\* the result extract_date_time returns when it has no record
ErrorResult == [error |-> <<>>]

\* "error" in data
IsError(d) == "error" \in DOMAIN d

\* f"{raw_date.split('-')[2]}-{raw_date.split('-')[0]}-{raw_date.split('-')[1]}"
DateFormat(raw_date) ==
  LET p == Split(raw_date, "-")
  IN p[3] \o <<"-">> \o p[1] \o <<"-">> \o p[2]

\* raw_time.replace(":", "")
TimeFormat(raw_time) == Replace(raw_time, <<":">>, <<>>)

\* raw_temperature.strip(), None without a match
TempFormat(raw_temperature) ==
  IF raw_temperature = None THEN None ELSE Strip(raw_temperature)

\* while "  " in text2: text2 = text2.replace("  ", " ")
RECURSIVE CollapseSpaces(_)
CollapseSpaces(text2) ==
  IF Contains(text2, <<" ", " ">>)
  THEN CollapseSpaces(Replace(text2, <<" ", " ">>, <<" ">>))
  ELSE text2

\* the line after the removal of the date, time and temperature texts
CleanLine(text, raw_date, raw_time, temperature_c, temperature_f) ==
  LET t1 == IF Truthy(DateFormat(raw_date)) THEN Replace(text, raw_date, <<>>)
            ELSE text
      t2 == IF Truthy(TimeFormat(raw_time)) THEN Replace(t1, raw_time, <<>>)
            ELSE t1
      t3 == IF Truthy(temperature_c) THEN Replace(t2, temperature_c, <<>>)
            ELSE t2
      t4 == IF Truthy(temperature_f) THEN Replace(t3, temperature_f, <<>>)
            ELSE t3
  IN CollapseSpaces(t4)

\* sorted(text2.split(" "), key=len, reverse=True)[0]; the split of any
\* string has at least one field, so the lookup never raises
CamIdOf(text2) == Head(SortedByLenDesc(Split(text2, " ")))

\* the record built from a line in which a date and a time were found
RecordOf(text, raw_date, raw_time) ==
  LET temperature_f == TempFormat(TempSearch(text, "F"))
      temperature_c == TempFormat(TempSearch(text, "C"))
  IN [text |-> text,
      cam_id |-> CamIdOf(CleanLine(text, raw_date, raw_time,
                                   temperature_c, temperature_f)),
      date |-> DateFormat(raw_date),
      time |-> TimeFormat(raw_time),
      temperature_c |-> temperature_c,
      temperature_f |-> temperature_f]

\* a parser that asks a line for its date only
LineMatchesDateOnly(text) == DateSearch(text) # None

\* the date and the time a line needs in order to give a record
LineMatches(text) == DateSearch(text) # None /\ TimeSearch(text) # None

\* the loop over the lines: the first line with a date and a time returns
RECURSIVE ParseLines(_)
ParseLines(lines) ==
  IF lines = <<>> THEN ErrorResult
  ELSE IF LineMatches(Head(lines))
       THEN RecordOf(Head(lines), DateSearch(Head(lines)),
                     TimeSearch(Head(lines)))
       ELSE ParseLines(Tail(lines))

\* extract_date_time once the banner text is known
ParseBanner(banner_text) ==
  IF banner_text = None THEN ErrorResult
  ELSE ParseLines(Split(banner_text, "\n"))

(* ------------------------------ pathlib ------------------------------- *)
\* a < b in the order of str, by code points
StrLess(a, b) ==
  \E k \in 1..Len(b) :
    /\ \A j \in 1..(k - 1) : j <= Len(a) /\ a[j] = b[j]
    /\ \/ k = Len(a) + 1
       \/ k <= Len(a) /\ Ord(a[k]) < Ord(b[k])

\* sorted(S) for a set of names of one directory
RECURSIVE SortedNames(_)
SortedNames(S) ==
  IF S = {} THEN <<>>
  ELSE LET m == CHOOSE x \in S : \A y \in S \ {x} : StrLess(x, y)
       IN <<m>> \o SortedNames(S \ {m})

\* Path(name).suffix: from the last dot, unless the dot is the first or the
\* last character of the name
Suffix(name) ==
  LET I == {k \in 1..Len(name) : name[k] = "."}
  IN IF I = {} \/ MaxOf(I) = 1 \/ MaxOf(I) = Len(name) THEN <<>>
     ELSE SubSeq(name, MaxOf(I), Len(name))

\* Path(name).with_suffix(suffix).name
WithSuffix(name, suffix) ==
  SubSeq(name, 1, Len(name) - Len(Suffix(name))) \o suffix

\* the components that "parent / text" appends to parent: text is cut at
\* every "/", and empty and "." components are dropped
RECURSIVE NonTrivial(_)
NonTrivial(parts) ==
  IF parts = <<>> THEN <<>>
  ELSE IF Head(parts) \in {<<>>, <<".">>} THEN NonTrivial(Tail(parts))
       ELSE <<Head(parts)>> \o NonTrivial(Tail(parts))

\* parent / text, a path being the sequence of its components
PathJoin(parent, text) == parent \o NonTrivial(Split(text, "/"))

\* Path.parent and Path.name
ParentOf(path) == SubSeq(path, 1, Len(path) - 1)
NameOf(path) == path[Len(path)]

(* --------------------------- program constants ------------------------ *)
EXT_AVI == <<".", "a", "v", "i">>
EXT_MP4 == <<".", "m", "p", "4">>
EXT_JPG == <<".", "j", "p", "g">>
EXT_JPEG == <<".", "j", "p", "e", "g">>
EXTENSIONS == {EXT_AVI, EXT_MP4, EXT_JPG, EXT_JPEG}

\* frame_interval of extract_banner_text_from_video
FrameInterval == 30

\* the placeholder main() uses for a camera id that is None
CAM_ID_DEFAULT == <<"C", "A", "M", "-", "I", "D">>

\* the text extract_banner_text_from_image returns for an unreadable image
ImageLoadError ==
  <<"E", "r", "r", "o", "r", ":", " ", "U", "n", "a", "b", "l", "e", " ", "t", "o", " ", "l", "o", "a", "d", " ", "t", "h", "e", " ", "i", "m", "a", "g", "e", ".", " ">>
    \o <<"C", "h", "e", "c", "k", " ", "t", "h", "e", " ", "f", "i", "l", "e", " ", "p", "a", "t", "h", ".">>

(* ------------------------------ the inputs ---------------------------- *)
P_DATE == <<"0", "6", "-", "0", "9", "-", "2", "0", "2", "3">>
P_TIME == <<"1", "3", ":", "4", "1", ":", "5", "1">>
P_SPACE == <<" ">>
P_NEWLINE == <<"\n">>
P_TEMP_C == <<" ", "2", "3", "C", " ">>
P_TEMP_F == <<" ", "7", "3", "F", " ">>
P_T23C == <<"T", "2", "3", "C">>
P_AB == <<"A", "B", " ">>
P_K9 == <<"K", "9">>

\* the pieces the banner texts of ParseSpec are made of
Pieces ==
  {P_DATE, P_TIME, P_SPACE, P_NEWLINE, P_TEMP_C, P_TEMP_F, P_T23C, P_AB, P_K9}

RECURSIVE Flatten(_)
Flatten(ps) == IF ps = <<>> THEN <<>> ELSE Head(ps) \o Flatten(Tail(ps))

\* every text of at most MaxPieces pieces
Texts ==
  UNION {{Flatten(ps) : ps \in [1..n -> Pieces]} : n \in 0..MaxPieces}

\* the banner texts of the media files of Spec
B_AB == P_AB \o P_DATE \o P_SPACE \o P_TIME
B_BARE == P_DATE \o P_SPACE \o P_TIME
B_SLASH == <<"A", "/", "B", " ">> \o P_DATE \o P_SPACE \o P_TIME
B_HYPHEN == <<"F", "-", "1", " ">> \o P_DATE \o P_SPACE \o P_TIME
B_SPLIT == P_DATE \o P_NEWLINE \o P_TIME
Banners == {B_AB, B_BARE, B_SLASH, B_HYPHEN, B_SPLIT}

\* a frame: the text the recognizer reads in its banner, whether the
\* recognizer raises on it, and whether it is a cropped banner strip
Frame(text, raises) == [text |-> text, raises |-> raises, crop |-> FALSE]

\* what a media file holds: its frames; no frame when it cannot be decoded
Contents ==
  {<<>>}
    \cup {<<Frame(b, FALSE)>> : b \in Banners \ {B_SPLIT}}
    \cup {<<Frame(B_AB, TRUE)>>, <<Frame(B_SPLIT, FALSE), Frame(B_AB, FALSE)>>}

N_JPG == <<"a", ".", "j", "p", "g">>
N_JPEG == <<"a", ".", "j", "p", "e", "g">>
N_JPG_UPPER == <<"a", ".", "J", "P", "G">>
N_ONE_HYPHEN == <<"e", "-", "f", ".", "m", "p", "4">>
N_TWO_HYPHENS == <<"c", "-", "d", "-", "e", ".", "a", "v", "i">>
Names == {N_JPG, N_JPEG, N_JPG_UPPER, N_ONE_HYPHEN, N_TWO_HYPHENS}

\* the values of --cam-id
CamIdArgs == {<<>>, P_K9}

\* the input directory
INPUT_DIR == <<<<"d">>>>

(* ------------------------------- state -------------------------------- *)
VARIABLES
  ptext,       \* ParseSpec: the banner text handed to the parser
  presult,     \* ParseSpec: what the parser returned for it
  dir_exists,  \* the input directory is a directory
  fs,          \* the files of the input directory: name -> frames
  rename,      \* args.rename
  cam_id_arg,  \* args.cam_id
  run,         \* number of the current run of main()
  pc,          \* start, loop, plan, done, exited (sys.exit), crashed
  files,       \* the sorted list of discovered names
  idx,         \* position of file_path in files
  data,        \* what extract_date_time returned for file_path
  cap,         \* the video_capture of the last video: none, open, released
  inspected,   \* frame_count of the frames of the last video handed to OCR
  renames,     \* the calls of Path.rename so far
  written,     \* the calls of cv2.imwrite so far
  report,      \* the outcome printed for each file so far
  renamed      \* the renames that succeeded, with the names they are made of

vars ==
  <<ptext, presult, dir_exists, fs, rename, cam_id_arg, run, pc, files, idx,
    data, cap, inspected, renames, written, report, renamed>>

parseVars == <<ptext, presult>>

mainVars ==
  <<dir_exists, fs, rename, cam_id_arg, run, pc, files, idx, data, cap,
    inspected, renames, written, report, renamed>>

\* main() before its first statement, on an empty history
MainIdle ==
  /\ run = 1 /\ pc = "start" /\ files = <<>> /\ idx = 1 /\ data = NoData
  /\ cap = "none" /\ inspected = <<>> /\ renames = <<>> /\ written = <<>>
  /\ report = <<>> /\ renamed = {}

(* ---------------------- ParseSpec: the parser alone ------------------- *)
ParseInit ==
  /\ ptext \in Texts \cup {None}
  /\ presult = NoData
  /\ dir_exists = FALSE /\ fs = <<>> /\ rename = FALSE /\ cam_id_arg = <<>>
  /\ MainIdle

\* extract_date_time from the banner text on
Parse ==
  /\ presult = NoData
  /\ presult' = ParseBanner(ptext)
  /\ UNCHANGED <<ptext, mainVars>>

ParseNext == Parse

ParseSpec == ParseInit /\ [][ParseNext]_vars

(* -------------------------- Spec: main() ------------------------------ *)
Init ==
  /\ ptext = <<>> /\ presult = NoData
  /\ dir_exists \in BOOLEAN
  /\ \E S \in SUBSET Names :
       /\ Cardinality(S) <= MaxFiles
       /\ dir_exists = FALSE => S = {}
       /\ fs \in [S -> Contents]
  /\ rename \in BOOLEAN
  /\ cam_id_arg \in CamIdArgs
  /\ MainIdle

\* the file the loop is at
FilePath == files[idx]

\* what decoding a name gives: its frames, none for a missing file
FramesOf(name) == IF name \in DOMAIN fs THEN fs[name] ELSE <<>>

\* the texts pytesseract.image_to_string may return for a frame; what is
\* legible in the bottom strip of an already cropped banner is not known
OcrTexts(frame) ==
  IF frame.crop THEN {frame.text, <<>>} ELSE {frame.text}

\* the ROI of a frame, as cv2.imwrite stores it
CropOf(frame) == [frame EXCEPT !.crop = TRUE]

\* the path banner_text_from_frame writes the ROI of a still to
DebugName(name) == WithSuffix(name, EXT_JPEG)

\* the while loop of extract_banner_text_from_video: the position in the
\* stream of the frame handed to banner_text_from_frame, 0 when the stream
\* ends first
RECURSIVE SampledFrame(_, _)
SampledFrame(frames, frame_count) ==
  IF frame_count + 1 > Len(frames) THEN 0
  ELSE IF frame_count % FrameInterval = 0 THEN frame_count + 1
       ELSE SampledFrame(frames, frame_count + 1)

IsVideo(name) == Lower(Suffix(name)) \in {EXT_AVI, EXT_MP4}
IsStill(name) == Lower(Suffix(name)) \in {EXT_JPG, EXT_JPEG}

\* main() up to the loop: the directory check and the sorted discovery
Setup ==
  /\ pc = "start"
  /\ IF dir_exists
     THEN /\ files' = SortedNames({n \in DOMAIN fs :
                                     Lower(Suffix(n)) \in EXTENSIONS})
          /\ pc' = "loop"
     ELSE /\ files' = <<>>
          /\ pc' = "exited"
  /\ idx' = 1
  /\ UNCHANGED <<parseVars, dir_exists, fs, rename, cam_id_arg, run, data,
                 cap, inspected, renames, written, report, renamed>>

\* extract_date_time for a video
ExtractVideo ==
  /\ pc = "loop" /\ idx <= Len(files) /\ IsVideo(FilePath)
  /\ LET frames == FramesOf(FilePath)
         k == SampledFrame(frames, 0)
     IN IF k = 0
        THEN /\ inspected' = <<>>
             /\ cap' = "released"
             /\ data' = ParseBanner(None)
             /\ pc' = "plan"
        ELSE /\ inspected' = <<k - 1>>
             /\ IF frames[k].raises
                THEN /\ cap' = "open"
                     /\ data' = NoData
                     /\ pc' = "exited"
                ELSE /\ cap' = "released"
                     /\ \E t \in OcrTexts(frames[k]) : data' = ParseBanner(t)
                     /\ pc' = "plan"
  /\ UNCHANGED <<parseVars, dir_exists, fs, rename, cam_id_arg, run, files,
                 idx, renames, written, report, renamed>>

\* extract_date_time for a still
ExtractImage ==
  /\ pc = "loop" /\ idx <= Len(files) /\ IsStill(FilePath)
  /\ LET frames == FramesOf(FilePath)
         dst == DebugName(FilePath)
     IN IF frames = <<>>
        THEN /\ data' = ParseBanner(ImageLoadError)
             /\ pc' = "plan"
             /\ UNCHANGED <<fs, written>>
        ELSE /\ fs' = [n \in DOMAIN fs \cup {dst} |->
                         IF n = dst THEN <<CropOf(frames[1])>> ELSE fs[n]]
             /\ written' = Append(written,
                  [run |-> run, src |-> FilePath, dst |-> dst,
                   pending |-> {files[j] : j \in (idx + 1)..Len(files)}])
             /\ IF frames[1].raises
                THEN /\ data' = NoData
                     /\ pc' = "exited"
                ELSE /\ \E t \in OcrTexts(frames[1]) : data' = ParseBanner(t)
                     /\ pc' = "plan"
  /\ UNCHANGED <<parseVars, dir_exists, rename, cam_id_arg, run, files, idx,
                 cap, inspected, renames, report, renamed>>

\* the camera id main() puts in the new name
ResolveCamId(cam_id, fallback) ==
  IF cam_id = None
  THEN IF Truthy(fallback) THEN fallback ELSE CAM_ID_DEFAULT
  ELSE cam_id

\* a new name whose parts are joined by hyphens
TargetTextHyphens(date, time, cam_id, name) ==
  date \o <<"-">> \o time \o <<"-">> \o cam_id \o <<"-">> \o name

\* f"{data['date']}_{data['time']}_{data['cam_id']}_{file_path.name}"
TargetText(date, time, cam_id, name) ==
  date \o <<"_">> \o time \o <<"_">> \o cam_id \o <<"_">> \o name

\* new_file_path
NewFilePath(d, name, fallback) ==
  PathJoin(INPUT_DIR,
           TargetText(d.date, d.time, ResolveCamId(d.cam_id, fallback), name))

\* a check that takes two hyphens or more for the mark of a renamed file
AlreadyRenamedAtLeastTwo(name) == Count(name, "-") >= 2

\* str(Path(file_path).name).count("-") == 2
AlreadyRenamed(name) == Count(name, "-") = 2

\* a loop body that renames whatever the mode is
WillRenameAnyMode(name, flag) == ~AlreadyRenamed(name)

\* the branch of main() that calls file_path.rename
WillRename(name, flag) == ~AlreadyRenamed(name) /\ flag

\* Path.rename succeeds when the source exists and the directory of the
\* target exists; the input directory holds files only
RenameSucceeds(name, dst) == name \in DOMAIN fs /\ ParentOf(dst) = INPUT_DIR

\* what main() prints for a file: notfound, already, dryrun or renamed, and
\* raised for the traceback of an exception that leaves the loop; with it
\* the record, the camera id and the new path the outcome was decided on
Outcome(name, outcome, dst, d, cam) ==
  [run |-> run, file |-> name, outcome |-> outcome, dst |-> dst, data |-> d,
   cam_id |-> cam, mode |-> rename]

\* the rest of the loop body of main(), after extract_date_time
Plan ==
  /\ pc = "plan"
  /\ LET name == FilePath
         dst == NewFilePath(data, name, cam_id_arg)
         cam == ResolveCamId(data.cam_id, cam_id_arg)
     IN IF IsError(data)
        THEN /\ report' = Append(report, Outcome(name, "notfound", None, data,
                                                None))
             /\ pc' = "loop"
             /\ UNCHANGED <<fs, renames, renamed>>
        ELSE IF ~(Truthy(data.date) /\ Truthy(data.time))
        THEN /\ pc' = "loop"
             /\ UNCHANGED <<fs, renames, renamed, report>>
        ELSE IF ~WillRename(name, rename)
        THEN /\ report' = Append(report,
                  Outcome(name, IF AlreadyRenamed(name) THEN "already"
                                ELSE "dryrun", dst, data, cam))
             /\ pc' = "loop"
             /\ UNCHANGED <<fs, renames, renamed>>
        ELSE /\ renames' = Append(renames,
                  [run |-> run, src |-> INPUT_DIR \o <<name>>, dst |-> dst])
             /\ IF RenameSucceeds(name, dst)
                THEN /\ fs' = [n \in (DOMAIN fs \ {name}) \cup {NameOf(dst)} |->
                                 IF n = NameOf(dst) THEN fs[name] ELSE fs[n]]
                     /\ report' = Append(report,
                          Outcome(name, "renamed", dst, data, cam))
                     /\ renamed' = renamed \cup
                          {[run |-> run, name |-> NameOf(dst), old |-> name,
                            cam_id |-> cam]}
                     /\ pc' = "loop"
                ELSE /\ report' = Append(report,
                          Outcome(name, "raised", dst, data, cam))
                     /\ pc' = "crashed"
                     /\ UNCHANGED <<fs, renamed>>
  /\ idx' = idx + 1
  /\ data' = NoData
  /\ UNCHANGED <<parseVars, dir_exists, rename, cam_id_arg, run, files, cap,
                 inspected, written>>

\* the loop of main() is over
Finish ==
  /\ pc = "loop" /\ idx > Len(files)
  /\ pc' = "done"
  /\ UNCHANGED <<parseVars, dir_exists, fs, rename, cam_id_arg, run, files,
                 idx, data, cap, inspected, renames, written, report, renamed>>

\* the program is started again on the same directory
NextRun ==
  /\ pc = "done" /\ run < MaxRuns
  /\ run' = run + 1
  /\ rename' \in BOOLEAN
  /\ pc' = "start"
  /\ files' = <<>> /\ idx' = 1 /\ cap' = "none" /\ inspected' = <<>>
  /\ UNCHANGED <<parseVars, dir_exists, fs, cam_id_arg, data, renames,
                 written, report, renamed>>

Next ==
  \/ Setup
  \/ ExtractVideo
  \/ ExtractImage
  \/ Plan
  \/ Finish
  \/ NextRun

Spec == Init /\ [][Next]_vars

(* ============================ properties ============================== *)
\* the entries of the report that were decided on a record
Entries == {report[k] : k \in DOMAIN report}
WithRecord == {e \in Entries : ~IsError(e.data)}

\* the calls of Path.rename made for the file of a report entry
CallsFor(e) ==
  {k \in DOMAIN renames :
     renames[k].run = e.run /\ renames[k].src = INPUT_DIR \o <<e.file>>}

HasDateToken(line) == \E k \in 1..Len(line) : DateAt(line, k)
HasTimeToken(line) == \E k \in 1..Len(line) : TimeAt(line, k)

\* the lines of the parsed text that hold a date token and a time token
FullLines(lines) ==
  {k \in 1..Len(lines) : HasDateToken(lines[k]) /\ HasTimeToken(lines[k])}

\* YYYY-MM-DD from the MM-DD-YYYY token of a line, digit by digit
ExpectedDate(line) ==
  LET raw == DateSearch(line)
  IN SubSeq(raw, 7, 10) \o <<"-">> \o SubSeq(raw, 1, 2) \o <<"-">>
       \o SubSeq(raw, 4, 5)

\* the six digits of the HH:MM:SS token of a line
ExpectedTime(line) ==
  LET raw == TimeSearch(line)
  IN SubSeq(raw, 1, 2) \o SubSeq(raw, 4, 5) \o SubSeq(raw, 7, 8)

\* C1: extract_date_time returns a record only if one line holds both a
\* date token and a time token, the record is built from the first such
\* line, and a text without such a line, or no text at all, gives the
\* error result, which carries no field of a record.
C1_RecordFromFirstFullLine ==
  presult # NoData =>
    IF ptext = None THEN presult = ErrorResult
    ELSE LET lines == Split(ptext, "\n")
             Q == FullLines(lines)
         IN IF Q = {}
            THEN presult = ErrorResult /\ DOMAIN presult = {"error"}
            ELSE /\ ~IsError(presult)
                 /\ presult.text = lines[MinOf(Q)]
                 /\ presult.date = ExpectedDate(lines[MinOf(Q)])
                 /\ presult.time = ExpectedTime(lines[MinOf(Q)])

\* C1 witness: a record built from the second line, the first line holding
\* a date and no time
C1_Witness ==
  /\ presult # NoData /\ ptext # None /\ ~IsError(presult)
  /\ LET lines == Split(ptext, "\n")
     IN /\ Len(lines) >= 2
        /\ HasDateToken(lines[1]) /\ ~HasTimeToken(lines[1])
        /\ presult.text = lines[2]

\* C2: for every file whose banner gives a record, the target path lies in
\* the directory of the file and its base name is
\* {date}_{time}_{cameraId}_{originalFileName}, whatever the camera id.
C2_TargetIsPrefixedSibling ==
  \A e \in WithRecord :
    /\ ParentOf(e.dst) = INPUT_DIR
    /\ NameOf(e.dst) =
         ExpectedDate(e.data.text) \o <<"_">> \o ExpectedTime(e.data.text)
           \o <<"_">> \o e.cam_id \o <<"_">> \o e.file

\* C3 as stated: no rename call in dry-run mode, and in execute mode every
\* file with a record gets exactly one rename call, to the computed path.
C3_Original ==
  \A e \in Entries :
    /\ ~e.mode => CallsFor(e) = {}
    /\ (e.mode /\ ~IsError(e.data)) =>
         /\ Cardinality(CallsFor(e)) = 1
         /\ \A k \in CallsFor(e) : renames[k].dst = e.dst

\* C3 amended: no rename call in dry-run mode; in execute mode a file with
\* a record gets exactly one rename call, to the computed path, unless its
\* base name has exactly two hyphens, and then it gets none.
C3_RenameOnlyInExecuteMode ==
  \A e \in Entries :
    /\ ~e.mode => CallsFor(e) = {}
    /\ (e.mode /\ ~IsError(e.data) /\ Count(e.file, "-") # 2) =>
         /\ Cardinality(CallsFor(e)) = 1
         /\ \A k \in CallsFor(e) : renames[k].dst = e.dst
    /\ (e.mode /\ Count(e.file, "-") = 2) => CallsFor(e) = {}

\* C3 witness: a file renamed in execute mode and, in the same history, a
\* file with a record left alone by a dry run
C3_Witness ==
  /\ \E e \in WithRecord :
       e.mode /\ e.outcome = "renamed" /\ Cardinality(CallsFor(e)) = 1
  /\ \E e \in WithRecord : ~e.mode /\ e.outcome = "dryrun"

\* C4 as stated: a base name with exactly two hyphens is marked already
\* renamed whatever the content and the mode, and no other name is.
C4_Original ==
  \A e \in Entries : (Count(e.file, "-") = 2) <=> (e.outcome = "already")

\* C4 amended: a file whose banner gives a record is marked already renamed
\* exactly when its base name has exactly two hyphens, in both modes; a
\* two-hyphen name without a record is reported as not found; a two-hyphen
\* name is never renamed.
C4_TwoHyphensMeansAlreadyRenamed ==
  \A e \in Entries :
    /\ ~IsError(e.data) =>
         ((Count(e.file, "-") = 2) <=> (e.outcome = "already"))
    /\ IsError(e.data) => e.outcome = "notfound"
    /\ Count(e.file, "-") = 2 => CallsFor(e) = {}

\* C4 witness: in execute mode a two-hyphen name with a record is skipped,
\* and a name with three hyphens and a record is not
C4_Witness ==
  /\ \E e \in WithRecord :
       e.mode /\ Count(e.file, "-") = 2 /\ e.outcome = "already"
  /\ \E e \in WithRecord : Count(e.file, "-") > 2

\* C5: when the line leaves no camera id, the camera id of the new name is
\* the --cam-id fallback if there is one and "CAM-ID" otherwise, and it is
\* never the empty string.
C5_CameraIdResolution ==
  \A e \in WithRecord :
    /\ e.cam_id # <<>>
    /\ e.data.cam_id \in {None, <<>>} =>
         e.cam_id = (IF cam_id_arg # <<>> THEN cam_id_arg ELSE CAM_ID_DEFAULT)

\* the positions of a line covered by its date, time, Celsius and
\* Fahrenheit tokens: the matched ones and, as a repeated token is matched
\* text too, every other token of the same text
CopiesOf(line, tok) ==
  UNION {k..(k + Len(tok) - 1) :
           k \in {j \in 1..(Len(line) - Len(tok) + 1) :
                    SubSeq(line, j, j + Len(tok) - 1) = tok}}

TempPositions(line, L) ==
  LET raw == TempSearch(line, L)
      I == {k \in 1..Len(line) :
              /\ TempAt(line, k, L)
              /\ SubSeq(line, k, k + DigitRun(line, k + 1) + 2) = raw}
  IN UNION {(k + 1)..(k + DigitRun(line, k + 1) + 1) : k \in I}

MatchedPositions(line) ==
  CopiesOf(line, DateSearch(line)) \cup CopiesOf(line, TimeSearch(line))
    \cup TempPositions(line, "C") \cup TempPositions(line, "F")

\* the line without its matched tokens
Remainder(line) ==
  LET keep == {k \in 1..Len(line) : k \notin MatchedPositions(line)}
  IN [j \in 1..Cardinality(keep) |->
        line[CHOOSE k \in keep : Cardinality({m \in keep : m <= k}) = j]]

\* the longest token of a text, the first one among equally long tokens
LongestToken(text) ==
  LET toks == Split(CollapseSpaces(text), " ")
      best == CHOOSE i \in 1..Len(toks) :
                \A j \in 1..Len(toks) :
                  /\ Len(toks[j]) <= Len(toks[i])
                  /\ j < i => Len(toks[j]) < Len(toks[i])
  IN toks[best]

\* C6: the camera id of a record is the longest token, the first one on a
\* tie, of what is left of the line once the matched date, time, Celsius
\* and Fahrenheit tokens are removed; a character that is not part of such
\* a token is never removed.
C6_CameraIdIsLongestRemainingToken ==
  (presult # NoData /\ ~IsError(presult)) =>
    presult.cam_id = LongestToken(Remainder(presult.text))

\* C7: an error on one file never ends the run: the only exit before the
\* end of the loop is the setup error of a missing input directory, taken
\* before any file is processed.
C7_OnlySetupErrorsEndTheRun ==
  pc \in {"exited", "crashed"} =>
    ~dir_exists /\ files = <<>> /\ report = <<>>

\* C8: the video_capture of a video is released on every way out of
\* extract_banner_text_from_video, and only frame 0 is ever inspected.
C8_CaptureReleasedOnEveryExit ==
  /\ cap # "open"
  /\ inspected \in {<<>>, <<0>>}

\* C9: the image written for a still is neither the still itself nor a
\* discovered file that is still to be processed.
C9_DebugImageOverwritesNoInput ==
  \A k \in DOMAIN written :
    written[k].dst # written[k].src /\ written[k].dst \notin written[k].pending

\* the report entries of a later run about a file an earlier run renamed
LaterEntries(h) ==
  {e \in WithRecord : e.run > h.run /\ e.file = h.name}

====
